---- MODULE Spec2Model ----
(***************************************************************************)
(* A model of episode-in-epub: the page-range resolver (get_story_id,      *)
(* get_page_range), the concurrent first-page resolution                   *)
(* (parse_story_infos), the story walker (parse_story), the XHTML          *)
(* sanitizer (sanitize_to_meet_xhtml, surround_with_xhtml_header) and one  *)
(* run of the program (main, ask_select_story).                            *)
(*                                                                         *)
(* Strings that the code only copies are TLA+ strings.  Strings that the   *)
(* code cuts apart (an image src, a pagination text) are sequences of      *)
(* one-character strings.  The glyph U+9801 (the page marker) is written   *)
(* as the one "character" PageMark, since the module is ASCII.             *)
(***************************************************************************)
EXTENDS Integers, Sequences, FiniteSets, TLC

\* ------------------------------------------------------------------ bounds
\* Longest HTML body, in tokens, given to the sanitizer.
MaxLen == 4
\* Longest body of wrapper elements and text, in tokens.
MaxWrapLen == 5
\* Most img elements and most float-left containers of a page-0 document.
MaxImgs == 2
MaxDivs == 2
\* Most pages of a story.
MaxPages == 3
\* Most story entries on an author page.
MaxStories == 3

VARIABLES
    \* sanitizer (epub.rs)
    html,           \* the body_html argument, as the tokens html5ever reads from it
    title,          \* the title argument of surround_with_xhtml_header
    result,         \* what sanitize_to_meet_xhtml returned (or that it panicked)
    xhtml,          \* what surround_with_xhtml_header returned
    san_pc,         \* "call" before the call, "done" after it, "idle" elsewhere
    \* page-range resolver (parser.rs)
    first_page_doc, \* the parsed page 0 of a story
    story_id,       \* what get_story_id(first_page_doc) did
    page_range,     \* what get_page_range(first_page_doc) did
    res_pc,         \* "id", "range", then "done", "err" or "panic"
    \* story walker (parser.rs)
    site_pages,     \* how many pages the live site shows for the story now
    server,         \* the GetPage endpoint's answer to each page index
    network,        \* the requests issued so far, in order
    story,          \* the StoryInfo given to parse_story
    walk,           \* parse_story's locals: pc, page, page_responses
    walk_result,    \* what parse_story returned
    \* first-page resolution of all stories (parser.rs)
    about_page,     \* the div.stystory entries of the author page, in document order
    futures,        \* the output of each get_page_document future, once it completed
    completed,      \* the futures in the order they completed
    story_infos,    \* what parse_story_infos returned
    join_pc,        \* "join" while join_all waits, then "done"
    \* one run of the program (main.rs)
    main_pc,        \* the call main is at, "exit" once the process ended
    author_id,      \* what ask_author_id returned
    profile,        \* the site's answer to the author profile request
    about_title,    \* the text of the profile page's title element, if any
    nickname,       \* what parse_nickname returned
    stories,        \* the Vec<StoryInfo> parse_stories builds and returns
    console,        \* what was printed so far, in order
    story_index_str, \* the line ask_select_story read last
    selected,       \* what ask_select_story did
    cover_image,    \* what download_cover_image returned
    files,          \* the files created in the working directory
    exit_status     \* how the process ended

sanVars == <<html, title, result, xhtml, san_pc>>
resVars == <<first_page_doc, story_id, page_range, res_pc>>
walkVars == <<site_pages, server, network, story, walk, walk_result>>
joinVars == <<about_page, futures, completed, story_infos, join_pc>>
mainVars == <<main_pc, author_id, profile, about_title, nickname, stories,
              console, story_index_str, selected, cover_image, files, exit_status>>
vars == <<html, title, result, xhtml, san_pc,
          first_page_doc, story_id, page_range, res_pc,
          site_pages, server, network, story, walk, walk_result,
          about_page, futures, completed, story_infos, join_pc,
          main_pc, author_id, profile, about_title, nickname, stories,
          console, story_index_str, selected, cover_image, files, exit_status>>

\* ------------------------------------------------------------ small helpers
RECURSIVE Flat(_)
\* The string a sequence of pushed pieces makes (String::push_str, format!).
Flat(pieces) ==
    IF pieces = <<>> THEN "" ELSE Head(pieces) \o Flat(Tail(pieces))

RECURSIVE CountOf(_, _)
\* How many pieces of a sequence equal x.
CountOf(x, pieces) ==
    IF pieces = <<>> THEN 0
    ELSE (IF Head(pieces) = x THEN 1 ELSE 0) + CountOf(x, Tail(pieces))

SeqsUpTo(S, n) == UNION {[1..k -> S] : k \in 0..n}

\* --------------------------------------------------- HTML input, as tokens
\* What html5ever's tokenizer hands the tree builder for a body string: start
\* tags (name, attributes with the quotes removed), end tags, character data
\* with the character references decoded, comments.  raw is the text of the
\* token in the input string.
StartTag(name, attrs, raw) ==
    [t |-> "start", name |-> name, attrs |-> attrs, text |-> "", raw |-> raw]
EndTag(name) ==
    [t |-> "end", name |-> name, attrs |-> <<>>, text |-> "",
     raw |-> "</" \o name \o ">"]
Chars(text, raw) ==
    [t |-> "chars", name |-> "", attrs |-> <<>>, text |-> text, raw |-> raw]
CommentTok(text) ==
    [t |-> "comment", name |-> "", attrs |-> <<>>, text |-> text,
     raw |-> "<!--" \o text \o "-->"]

ClassX == << <<"class", "x">> >>

HtmlTokens ==
    { StartTag("p", <<>>, "<p>"),
      StartTag("p", ClassX, "<p class=x>"),
      StartTag("p", ClassX, "<p class=\"x\">"),
      StartTag("span", <<>>, "<span>"),
      StartTag("b", <<>>, "<b>"),
      StartTag("font", <<>>, "<font>"),
      StartTag("br", <<>>, "<br>"),
      StartTag("br", <<>>, "<br />"),
      EndTag("p"), EndTag("span"), EndTag("b"), EndTag("font"),
      Chars("hi", "hi"),
      Chars("<br />", "&lt;br /&gt;"),
      CommentTok("c") }

\* ------------------------------------------ Html::parse_fragment (scraper)
\* The tree: nodes in creation order, node 1 the <html> root element of the
\* fragment (Html::root_element), each with its parent and its children in
\* document order.
ElementValue(name, attrs) ==
    [kind |-> "element", name |-> name, attrs |-> attrs, text |-> ""]
TextValue(text) ==
    [kind |-> "text", name |-> "", attrs |-> <<>>, text |-> text]
CommentValue(text) ==
    [kind |-> "comment", name |-> "", attrs |-> <<>>, text |-> text]

NewFragment ==
    [nodes |-> << [value |-> ElementValue("html", <<>>), parent |-> 0,
                   children |-> <<>>] >>,
     open |-> <<1>>,
     modelled |-> TRUE]

AppendChild(nodes, parent, value) ==
    LET id == Len(nodes) + 1
    IN  [Append(nodes, [value |-> value, parent |-> parent, children |-> <<>>])
            EXCEPT ![parent].children = Append(@, id)]

\* Formatting elements (kept in the list of active formatting elements) and
\* special elements of the HTML tree construction rules, among the names used.
Formatting == {"b", "font"}
Special == {"html", "p"}

NameAt(st, i) == st.nodes[st.open[i]].value.name
Current(st) == st.open[Len(st.open)]
Opened(st, name) == {i \in 1..Len(st.open) : NameAt(st, i) = name}
Topmost(S) == CHOOSE i \in S : \A j \in S : j <= i

\* Pops the stack of open elements down to and including position i.  Popping
\* a formatting element that its own end tag did not close leaves it in the
\* list of active formatting elements, to be reconstructed later: that
\* recovery is not modelled, and such an input is left out (modelled = FALSE).
PopThrough(st, i) ==
    [st EXCEPT !.open = SubSeq(@, 1, i - 1),
               !.modelled = @ /\ \A j \in (i + 1)..Len(st.open) :
                                    NameAt(st, j) \notin Formatting]

InsertElement(st, name, attrs, push) ==
    LET id == Len(st.nodes) + 1
    IN  [st EXCEPT !.nodes = AppendChild(@, Current(st), ElementValue(name, attrs)),
                   !.open = IF push THEN Append(@, id) ELSE @]

InsertCharacters(st, text) ==
    LET kids == st.nodes[Current(st)].children
        last == IF kids = <<>> THEN 0 ELSE kids[Len(kids)]
    IN  IF last # 0 /\ st.nodes[last].value.kind = "text"
        THEN [st EXCEPT !.nodes[last].value.text = @ \o text]
        ELSE [st EXCEPT !.nodes = AppendChild(@, Current(st), TextValue(text))]

\* "Any other end tag" of the in-body rules: the nearest open element of
\* that name is closed, unless a special element is met first.
AnyOtherEndTag(st, name) ==
    LET hit == Opened(st, name)
        blockers == {i \in 1..Len(st.open) : NameAt(st, i) \in Special}
    IN  IF hit = {} \/ Topmost(blockers) > Topmost(hit) THEN st
        ELSE PopThrough(st, Topmost(hit))

\* One token through the tree builder, in the "in body" insertion mode of a
\* fragment parsed in a <body> context.
TreeBuilderStep(st, tok) ==
    CASE tok.t = "chars" -> InsertCharacters(st, tok.text)
      [] tok.t = "comment" ->
            [st EXCEPT !.nodes = AppendChild(@, Current(st), CommentValue(tok.text))]
      [] tok.t = "start" /\ tok.name = "br" ->
            InsertElement(st, "br", tok.attrs, FALSE)
      [] tok.t = "start" /\ tok.name = "p" ->
            \* an open <p> is closed first
            LET ps == Opened(st, "p")
                closed == IF ps = {} THEN st ELSE PopThrough(st, Topmost(ps))
            IN  InsertElement(closed, "p", tok.attrs, TRUE)
      [] tok.t = "start" ->
            InsertElement(st, tok.name, tok.attrs, TRUE)
      [] tok.t = "end" /\ tok.name = "p" ->
            \* </p> with no <p> open makes an empty <p>
            LET ps == Opened(st, "p")
            IN  IF ps = {} THEN InsertElement(st, "p", <<>>, FALSE)
                ELSE PopThrough(st, Topmost(ps))
      [] tok.t = "end" /\ tok.name \in Formatting ->
            \* the adoption agency algorithm, in the cases where no special
            \* element was opened inside the formatting element
            LET fs == Opened(st, tok.name)
            IN  IF fs = {} THEN st
                ELSE IF \E j \in (Topmost(fs) + 1)..Len(st.open) :
                            NameAt(st, j) \in Special
                     THEN [st EXCEPT !.modelled = FALSE]
                     ELSE PopThrough(st, Topmost(fs))
      [] OTHER -> AnyOtherEndTag(st, tok.name)

RECURSIVE TreeBuilder(_, _)
TreeBuilder(st, toks) ==
    IF toks = <<>> THEN st
    ELSE TreeBuilder(TreeBuilderStep(st, Head(toks)), Tail(toks))

\* Html::parse_fragment(html): never fails; the tree of the body.
ParseFragment(toks) == TreeBuilder(NewFragment, toks).nodes

\* The bodies whose parse the rules above cover.
Modelled(toks) == TreeBuilder(NewFragment, toks).modelled

\* ------------------------------------- ego_tree descendants (pre-order)
RECURSIVE Descendants(_, _)
RECURSIVE DescendantsOfAll(_, _)
Descendants(nodes, n) == <<n>> \o DescendantsOfAll(nodes, nodes[n].children)
DescendantsOfAll(nodes, kids) ==
    IF kids = <<>> THEN <<>>
    ELSE Descendants(nodes, Head(kids)) \o DescendantsOfAll(nodes, Tail(kids))

RECURSIVE Kept(_, _)
RECURSIVE KeptOfAll(_, _)
\* A traversal that does not enter a denylisted element (what dropping the
\* whole subtree would visit).
Kept(nodes, n) ==
    IF nodes[n].value.kind = "element" /\ nodes[n].value.name \in {"font", "b", "span"}
    THEN <<>>
    ELSE <<n>> \o KeptOfAll(nodes, nodes[n].children)
KeptOfAll(nodes, kids) ==
    IF kids = <<>> THEN <<>>
    ELSE Kept(nodes, Head(kids)) \o KeptOfAll(nodes, Tail(kids))
VisitedSkippingSubtrees(nodes) == Tail(Kept(nodes, 1))

\* fragment.root_element().descendants().skip(1)
Visited(nodes) == Tail(Descendants(nodes, 1))

\* ------------------------------------------- sanitize_to_meet_xhtml (epub.rs)
Denylist == {"font", "b", "span"}

DebugStr(s) == "\"" \o s \o "\""

RECURSIVE DebugAttrs(_)
DebugAttrs(attrs) ==
    IF attrs = <<>> THEN ""
    ELSE " " \o Head(attrs)[1] \o "=" \o DebugStr(Head(attrs)[2])
             \o DebugAttrs(Tail(attrs))

\* format!("{:?}", element): the start tag with every attribute value in
\* double quotes; an element has no other Debug output (no end tag).
DebugElement(e) == "<" \o e.name \o DebugAttrs(e.attrs) \o ">"

\* The node kinds the loop has a branch for.
Reachable(v) == v.kind \in {"element", "text"}

\* What one turn of the loop pushes for node value v.
Emit(v) ==
    IF v.kind = "element" /\ v.name \in Denylist THEN <<>>
    ELSE IF v.kind = "element"
         THEN IF v.name = "br" THEN << "<br />" >> ELSE << DebugElement(v) >>
         ELSE << v.text >>

RECURSIVE SanitizeLoop(_, _, _)
\* The for loop: acc is result so far; unreachable!() ends the call.
SanitizeLoop(nodes, order, acc) ==
    IF order = <<>> THEN [panicked |-> FALSE, pieces |-> acc]
    ELSE LET v == nodes[Head(order)].value
         IN  IF ~Reachable(v) THEN [panicked |-> TRUE, pieces |-> acc]
             ELSE SanitizeLoop(nodes, Tail(order), acc \o Emit(v))

SanitizeToMeetXhtml(toks) ==
    LET fragment == ParseFragment(toks)
    IN  SanitizeLoop(fragment, Visited(fragment), <<>>)

\* surround_with_xhtml_header: the shell around the sanitized body.
ShellHead == "<?xml version=\"1.0\" encoding=\"UTF-8\"?>..<head>..</meta>"
ShellLink == "<link rel=\"stylesheet\" type=\"text/css\" href=\"stylesheet.css\" />.</head>.<body>"
ShellTail == "</body>.</html>"

SurroundWithXhtmlHeader(t, body) ==
    << ShellHead, "<title>", t, "</title>", ShellLink, "\n" >>
        \o body \o << "\n", ShellTail >>

NotRun == [panicked |-> FALSE, pieces |-> <<>>]

\* ------------------------------------------------- strings as characters
PageMark == "U+9801"
Digits == <<"0", "1", "2", "3", "4", "5", "6", "7", "8", "9">>
LowerCase == <<"a", "b", "c", "d", "e", "f", "g", "h", "i", "j", "k", "l", "m",
               "n", "o", "p", "q", "r", "s", "t", "u", "v", "w", "x", "y", "z">>
UpperCase == <<"A", "B", "C", "D", "E", "F", "G", "H", "I", "J", "K", "L", "M",
               "N", "O", "P", "Q", "R", "S", "T", "U", "V", "W", "X", "Y", "Z">>

IndexIn(c, alphabet) ==
    IF \E i \in 1..Len(alphabet) : alphabet[i] = c
    THEN CHOOSE i \in 1..Len(alphabet) : alphabet[i] = c
    ELSE 0

\* str::to_uppercase
ToUppercase(s) ==
    [i \in 1..Len(s) |->
        IF IndexIn(s[i], LowerCase) # 0 THEN UpperCase[IndexIn(s[i], LowerCase)]
        ELSE s[i]]

\* str::contains(char)
Contains(s, c) == \E i \in 1..Len(s) : s[i] = c

\* Position of the first c in s, 0 when there is none.
Find(s, c) ==
    IF Contains(s, c)
    THEN CHOOSE i \in 1..Len(s) : s[i] = c /\ \A j \in 1..(i - 1) : s[j] # c
    ELSE 0

RECURSIVE Split(_, _)
\* str::split(c): the pieces between the separators; "" gives one empty piece.
Split(s, c) ==
    IF Find(s, c) = 0 THEN << s >>
    ELSE << SubSeq(s, 1, Find(s, c) - 1) >>
             \o Split(SubSeq(s, Find(s, c) + 1, Len(s)), c)

None == [some |-> FALSE, v |-> <<>>]
Some(v) == [some |-> TRUE, v |-> v]

\* str::split_once(c): None when c does not occur.
SplitOnce(s, c) ==
    IF Find(s, c) = 0 THEN None
    ELSE Some(<< SubSeq(s, 1, Find(s, c) - 1), SubSeq(s, Find(s, c) + 1, Len(s)) >>)

RECURSIVE Decimal(_)
Decimal(ds) ==
    IF ds = <<>> THEN 0
    ELSE 10 * Decimal(SubSeq(ds, 1, Len(ds) - 1)) + (IndexIn(ds[Len(ds)], Digits) - 1)

\* str::parse::<usize>(): an optional "+" and then one digit or more, nothing
\* else (no white space is trimmed); None stands for the ParseIntError.  The
\* texts used are far below usize::MAX.
ParseUsize(s) ==
    LET ds == IF s # <<>> /\ s[1] = "+" THEN Tail(s) ELSE s
    IN  IF ds # <<>> /\ \A i \in 1..Len(ds) : IndexIn(ds[i], Digits) # 0
        THEN Some(Decimal(ds))
        ELSE None

\* ------------------------------------------------ the page-0 document
\* Of a parsed page 0, what the two selectors read: the img elements in
\* document order, each with its class and its src (None: no src attribute),
\* and the inner HTML of the div elements with style="float:left".
Img(class, src) == [class |-> class, src |-> src]

Slash == << "/" >>
ContentDir == << "c", "o", "n", "t", "e", "n", "t" >>
CoverDir == << "c", "o", "v", "e", "r", "i", "m", "a", "g", "e" >>
JpgQuery == << ".", "j", "p", "g", "?", "0" >>

\* "/content/coverimage/AB12CD.jpg?0"
SrcUpper ==
    Slash \o ContentDir \o Slash \o CoverDir \o Slash
        \o << "A", "B", "1", "2", "C", "D" >> \o JpgQuery
\* "/content/coverimage/ef34.jpg?0"
SrcLower ==
    Slash \o ContentDir \o Slash \o CoverDir \o Slash
        \o << "e", "f", "3", "4" >> \o JpgQuery
\* "/coverimage/ab.jpg?0": the file name is the third piece
SrcShort == Slash \o CoverDir \o Slash \o << "a", "b" >> \o JpgQuery
\* "/s/v/1.2/coverimage/ab.jpg?0": the file name is the sixth piece
SrcLong ==
    Slash \o << "s" >> \o Slash \o << "v" >> \o Slash \o << "1", ".", "2" >>
        \o Slash \o CoverDir \o Slash \o << "a", "b" >> \o JpgQuery
\* "/content/coverimage/ab": no extension
SrcNoDot == Slash \o ContentDir \o Slash \o CoverDir \o Slash \o << "a", "b" >>

Imgs ==
    { Img("roundcorner", Some(SrcUpper)),
      Img("roundcorner", Some(SrcLower)),
      Img("roundcorner", Some(SrcShort)),
      Img("roundcorner", Some(SrcLong)),
      Img("roundcorner", Some(SrcNoDot)),
      Img("roundcorner", Some(<<>>)),
      Img("roundcorner", None),
      Img("avatar", Some(SrcLower)) }

FloatLeftTexts ==
    { << "1", "2", " ", PageMark >>,            \* "12 <mark>"
      << "3", " ", PageMark >>,                 \* "3 <mark>"
      << "0", " ", PageMark >>,                 \* "0 <mark>"
      << " ", "1", "2", " ", PageMark >>,       \* " 12 <mark>"
      << "1", "2", "\t", PageMark >>,           \* "12<tab><mark>"
      << "1", "2", PageMark >>,                 \* "12<mark>"
      << "p", " ", "4", " ", PageMark >>,       \* "p 4 <mark>"
      << "4", " ", "h", "i" >> }                \* "4 hi"

\* ------------------------------------------------- get_story_id (parser.rs)
Ok(v) == [tag |-> "Ok", v |-> v]
Err(e) == [tag |-> "Err", v |-> e]
Panic(line) == [tag |-> "Panic", v |-> line]
NotCalled == [tag |-> "None", v |-> 0]

\* doc.select("img.roundcorner")
SelectImgs(doc) ==
    SelectSeq(doc.imgs, LAMBDA img : img.class = "roundcorner")

\* .find(|node| node.value().attr("src").map_or(false, |img_src| img_src != ""))
FindWithSrc(imgs) ==
    LET hits == {i \in 1..Len(imgs) : imgs[i].src.some /\ imgs[i].src.v # <<>>}
    IN  IF hits = {} THEN None
        ELSE Some(imgs[CHOOSE i \in hits : \A j \in hits : i <= j].src.v)

\* The file name taken one piece too early: split("/").skip(2).next()
NamePieceSkipTwo(pieces) ==
    IF Len(pieces) >= 3 THEN Some(pieces[3]) ELSE None

\* Which piece of the src the file name is taken from: split("/").skip(3).next()
NamePiece(pieces) ==
    IF Len(pieces) >= 4 THEN Some(pieces[4]) ELSE None

\* Every failure is an unwrap() on None: the function never returns Err.
GetStoryId(doc) ==
    LET node == FindWithSrc(SelectImgs(doc))
    IN  IF ~node.some THEN Panic(138)
        ELSE LET img_name == NamePiece(Split(node.v, "/"))
             IN  IF ~img_name.some THEN Panic(134)
                 ELSE LET halves == SplitOnce(img_name.v, ".")
                      IN  IF ~halves.some THEN Panic(135)
                          ELSE Ok(ToUppercase(halves.v[1]))

\* ----------------------------------------------- get_page_range (parser.rs)
Range(start, end) == [start |-> start, end |-> end]

\* What the body of the loop does for one container holding the marker.
PageCountOf(inner_html) ==
    LET halves == SplitOnce(inner_html, " ")
    IN  IF ~halves.some THEN Panic(147)
        ELSE LET page_count == ParseUsize(halves.v[1])
             IN  IF ~page_count.some THEN Err("ParseIntError")
                 ELSE Ok(Range(0, page_count.v))

RECURSIVE PageRangeLoop(_)
PageRangeLoop(divs) ==
    IF divs = <<>> THEN Ok(Range(0, 1))
    ELSE IF Contains(Head(divs), PageMark) THEN PageCountOf(Head(divs))
    ELSE PageRangeLoop(Tail(divs))

GetPageRange(doc) == PageRangeLoop(doc.divs)

\* ------------------------------------------- post_get_page_api (parser.rs)
BASE_URL == "https://episode.cc"

\* What the endpoint sends back for one POST: whether the request got
\* through at all, the HTTP status, and whether the body is the JSON object
\* GetPageResponse expects.
Responses ==
    [sent : {TRUE}, status : {200, 500}, json : BOOLEAN]
        \cup { [sent |-> FALSE, status |-> 0, json |-> FALSE] }

\* The page the site holds at index p, as far as the tool reads it.
GetPageResponse(p) == [title |-> << "title", p >>, htmlbody |-> << "body", p >>]

\* post_request::<GetPageResponse>: send()? and json()?.  The status is not
\* looked at: a body that deserializes is Ok whatever the status.
PostRequest(resp, p) ==
    IF ~resp.sent THEN Err("send")
    ELSE IF ~resp.json THEN Err("json")
    ELSE Ok(GetPageResponse(p))

Unanswered == [sent |-> FALSE, status |-> 0, json |-> FALSE]
ResponseFor(srv, p) == IF p \in DOMAIN srv THEN srv[p] ELSE Unanswered

PostGetPageApi(srv, p) == PostRequest(ResponseFor(srv, p), p)

Post(referer, sid, pid) ==
    [method |-> "POST", url |-> referer, sid |-> sid, pid |-> pid]
Get(url, p) == [method |-> "GET", url |-> url, sid |-> <<>>, pid |-> p]

\* --------------------------------------------------- parse_story (parser.rs)
StoryInfo(t, id, url, range) ==
    [title |-> t, id |-> id, url |-> url, page_range |-> range]

\* let mut page_responses = Vec::new(); for page in start..end
WalkStart(st) == [pc |-> "loop", page |-> st.page_range.start, page_responses |-> <<>>]

\* The end of the range read from the live site at every turn.
RangeDoneLive(w, st) == w.page >= site_pages

\* The loop is over when the range is used up.
RangeDone(w, st) == w.page >= st.page_range.end

\* Ok(page_response) => page_responses.push(page_response), and the next page
MatchOk(w, page_response) ==
    [w EXCEPT !.page_responses = Append(@, page_response), !.page = @ + 1]

\* The Err arm going on with the next page instead of leaving the loop.
MatchErrContinue(w) == [w EXCEPT !.page = @ + 1]

\* Err(_) => { println!(..); break; }
MatchErr(w) == [w EXCEPT !.pc = "return"]

WalkIdle == [pc |-> "idle", page |-> 0, page_responses |-> <<>>]

\* --------------------------------------------- parse_story_infos (parser.rs)
\* The stories of the site: what the author page shows of each (title, href)
\* and the page 0 the site serves under its URL.
Entry(t, href) == [title |-> t, href |-> href]

SiteStories ==
    { Entry("Alpha", "/s/alpha"), Entry("Beta", "/s/beta"),
      Entry("Gamma", "/s/gamma"), Entry("Delta", "/s/delta") }

PageZero(url) ==
    CASE url = BASE_URL \o "/s/alpha" ->
            [imgs |-> << Img("roundcorner", Some(SrcUpper)) >>,
             divs |-> << << "1", "2", " ", PageMark >> >>]
      [] url = BASE_URL \o "/s/beta" ->
            [imgs |-> << Img("avatar", Some(SrcUpper)),
                         Img("roundcorner", Some(SrcLower)) >>,
             divs |-> << << "3", " ", PageMark >> >>]
      [] url = BASE_URL \o "/s/gamma" ->
            [imgs |-> << Img("roundcorner", Some(SrcLower)) >>,
             divs |-> <<>>]
      [] OTHER ->
            \* a page 0 without a cover image
            [imgs |-> <<>>, divs |-> << << "3", " ", PageMark >> >>]

\* format!("{}{}", BASE_URL, relative_url)
UrlOf(entry) == BASE_URL \o entry.href

\* The first half of the unzip: (title, url) per entry, in document order.
TitleAndUrls(page) ==
    [i \in 1..Len(page) |-> << page[i].title, UrlOf(page[i]) >>]

\* get_page_document(url, 0): Err on a transport failure or a non-success
\* status, the parsed document otherwise.
GetPageDocument(url, resp) ==
    IF ~resp.sent THEN Err("send")
    ELSE IF resp.status # 200 THEN Err("status")
    ELSE Ok(PageZero(url))

\* join_all handing the outputs back in the order the futures completed.
JoinAllAsCompleted(outputs, order) ==
    [i \in 1..Len(order) |-> outputs[order[i]]]

\* join_all(futures).await: the outputs in the order of the futures given,
\* whatever the order they completed in.
JoinAll(outputs, order) == [i \in 1..Len(outputs) |-> outputs[i]]

\* The closure of the map: `?` on the document, the id, the range.
ToStoryInfo(first_page, title_and_url) ==
    IF first_page.tag # "Ok" THEN first_page
    ELSE LET id == GetStoryId(first_page.v)
             range == GetPageRange(first_page.v)
         IN  IF id.tag # "Ok" THEN id
             ELSE IF range.tag # "Ok" THEN range
             ELSE Ok(StoryInfo(title_and_url[1], id.v, title_and_url[2], range.v))

\* .zip(title_and_urls).map(..).collect::<Result<Vec<StoryInfo>>>(): the
\* first element that is not Ok ends it (an Err is returned, a panic unwinds).
Collect(docs, title_and_urls) ==
    LET each == [i \in 1..Len(docs) |-> ToStoryInfo(docs[i], title_and_urls[i])]
        bad == {i \in 1..Len(each) : each[i].tag # "Ok"}
    IN  IF bad = {} THEN Ok([i \in 1..Len(each) |-> each[i].v])
        ELSE each[CHOOSE i \in bad : \A j \in bad : i <= j]

\* ------------------------------------------------------------ main (main.rs)
\* The lines a user types (read_line keeps the line feed).
MaxLines == 2

AuthorLines == { << "k", "k", "\n" >>, << " ", "k", "k", " ", "\n" >> }

StoryLines ==
    { << "0", "\n" >>, << "1", "\n" >>, << "2", "\n" >>, << "3", "\n" >>,
      << "4", "\n" >>, << "5", "\n" >>, << " ", "2", " ", "\n" >>,
      << "+", "1", "\n" >>, << "-", "1", "\n" >>, << "q", "\n" >>,
      << "Q", "\n" >>, << "x", "\n" >>, << "\n" >>, <<>> }

WhiteSpaceChars == {" ", "\t", "\n", "\r"}

RECURSIVE TrimStart(_)
TrimStart(s) ==
    IF s # <<>> /\ Head(s) \in WhiteSpaceChars THEN TrimStart(Tail(s)) ELSE s

RECURSIVE TrimEnd(_)
TrimEnd(s) ==
    IF s # <<>> /\ s[Len(s)] \in WhiteSpaceChars
    THEN TrimEnd(SubSeq(s, 1, Len(s) - 1))
    ELSE s

\* str::trim
Trim(s) == TrimEnd(TrimStart(s))

RECURSIVE SplitAsciiWhitespace(_)
\* str::split_ascii_whitespace: the non-empty runs between white space.
SplitAsciiWhitespace(s) ==
    LET t == TrimStart(s)
        ends == {i \in 1..Len(t) : t[i] \in WhiteSpaceChars}
        stop == IF ends = {} THEN Len(t) + 1
                ELSE CHOOSE i \in ends : \A j \in ends : i <= j
    IN  IF t = <<>> THEN <<>>
        ELSE << SubSeq(t, 1, stop - 1) >>
                 \o SplitAsciiWhitespace(SubSeq(t, stop, Len(t)))

\* StatusCode::is_success
IsSuccess(status) == status \in 200..299

\* A GET of an endpoint that has no page index.
GetUrl(endpoint) == [method |-> "GET", url |-> endpoint]

\* What the site sends back for the profile request: whether the request got
\* through, the status, and whether the body could be read as text.
ProfileResponses ==
    [sent : {TRUE}, status : {200, 302, 404, 500}, body : BOOLEAN]
        \cup { [sent |-> FALSE, status |-> 0, body |-> FALSE] }

NoProfile == [sent |-> FALSE, status |-> 0, body |-> FALSE]

\* get_about_page with no look at the status.
GetAboutPageUnchecked(resp) ==
    IF ~resp.sent THEN Err("send")
    ELSE IF ~resp.body THEN Panic(100)
    ELSE Ok("document")

\* get_about_page: send_request(..)?, the status check, text().unwrap().
GetAboutPage(resp) ==
    IF ~resp.sent THEN Err("send")
    ELSE IF ~IsSuccess(resp.status) THEN Err("status")
    ELSE IF ~resp.body THEN Panic(100)
    ELSE Ok("document")

\* The title element of the profile page: none, one without text, or its text.
AboutTitles ==
    { None, Some(<<>>), Some(<< "A" >>), Some(<< "A", " ", "n", "i", "c", "k" >>) }

\* parse_nickname: the second word of the first title element's text.
ParseNickname(t) ==
    IF ~t.some THEN Panic(106)
    ELSE IF t.v = <<>> THEN Err("Failed to parse nickname")
    ELSE IF Len(SplitAsciiWhitespace(t.v)) < 2 THEN Panic(114)
    ELSE Ok(SplitAsciiWhitespace(t.v)[2])

\* How the process ended: main returned Ok(()) or Err, a panic unwound, or
\* exit(code) was called.
Running == [ended |-> FALSE, code |-> 0, by |-> ""]
Ended(code, by) == [ended |-> TRUE, code |-> code, by |-> by]
EndedBy(r) == IF r.tag = "Err" THEN Ended(1, "error") ELSE Ended(101, "panic")

\* One turn of the loop of ask_select_story on the line read.  With i = 0 the
\* guard holds and stories[i - 1] panics: on the subtraction where overflow is
\* checked, on the index usize::MAX where it wraps.  NotCalled: "Try again".
SelectTurn(ln, list) ==
    LET t == Trim(ln)
    IN  IF ParseUsize(t).some /\ ParseUsize(t).v <= Len(list)
        THEN IF ParseUsize(t).v = 0 THEN Panic(161)
             ELSE Ok(list[ParseUsize(t).v])
        ELSE IF t = << "q" >> THEN [tag |-> "Exit", v |-> 1]
        ELSE NotCalled

\* The HTMLBODY the site holds for each page: text, a paragraph, and from the
\* third page on a body with a comment in it.
HtmlBodyOf(htmlbody) ==
    CASE htmlbody[2] = 0 -> << Chars("hi", "hi") >>
      [] htmlbody[2] = 1 -> << StartTag("p", <<>>, "<p>"), Chars("hi", "hi"), EndTag("p") >>
      [] OTHER -> << Chars("hi", "hi"), CommentTok("c") >>

\* download_cover_image: the bytes on a success status, None otherwise
\* (resp.json stands for a body that could be read).
DownloadCoverImage(resp) ==
    IF resp.sent /\ IsSuccess(resp.status) /\ resp.json THEN Some("bytes") ELSE None

\* The endpoint answering every page below k and failing from k on.
MainServers ==
    { [p \in 0..(MaxPages - 1) |->
          IF p < k THEN [sent |-> TRUE, status |-> 200, json |-> TRUE]
          ELSE [sent |-> TRUE, status |-> 500, json |-> FALSE]] : k \in 0..MaxPages }

\* ------------------------------------------------------------ specifications
Titles == {"Chapter"}

\* One call surround_with_xhtml_header(title, body_html): the sanitizer runs
\* inside the format!; a panic in it leaves no document.
SurroundCall ==
    /\ san_pc = "call"
    /\ result' = SanitizeToMeetXhtml(html)
    /\ xhtml' = IF result'.panicked THEN <<>>
                ELSE SurroundWithXhtmlHeader(title, result'.pieces)
    /\ san_pc' = "done"
    /\ UNCHANGED <<html, title>>
    /\ UNCHANGED <<resVars, walkVars, joinVars, mainVars>>

IdleMain ==
    /\ main_pc = "idle"
    /\ author_id = ""
    /\ profile = NoProfile
    /\ about_title = None
    /\ nickname = NotCalled
    /\ stories = <<>>
    /\ console = <<>>
    /\ story_index_str = <<>>
    /\ selected = NotCalled
    /\ cover_image = None
    /\ files = {}
    /\ exit_status = Running

IdleJoin ==
    /\ about_page = <<>>
    /\ futures = <<>>
    /\ completed = <<>>
    /\ story_infos = NotCalled
    /\ join_pc = "idle"

IdleSan ==
    /\ html = <<>>
    /\ title = ""
    /\ result = NotRun
    /\ xhtml = <<>>
    /\ san_pc = "idle"

IdleRes ==
    /\ first_page_doc = [imgs |-> <<>>, divs |-> <<>>]
    /\ story_id = NotCalled
    /\ page_range = NotCalled
    /\ res_pc = "idle"

IdleWalk ==
    /\ site_pages = 0
    /\ server = <<>>
    /\ network = <<>>
    /\ story = StoryInfo("", <<>>, "", Range(0, 0))
    /\ walk = WalkIdle
    /\ walk_result = NotCalled

InitSanitize ==
    /\ IdleMain
    /\ IdleJoin
    /\ IdleRes
    /\ IdleWalk
    /\ html \in {h \in SeqsUpTo(HtmlTokens, MaxLen) : Modelled(h)}
    /\ title \in Titles
    /\ result = NotRun
    /\ xhtml = <<>>
    /\ san_pc = "call"

NextSanitize == SurroundCall

SpecSanitize == InitSanitize /\ [][NextSanitize]_vars

\* Bodies made only of font/b/span tags and text.
WrapperTokens ==
    {tok \in HtmlTokens : \/ tok.t \in {"start", "end"} /\ tok.name \in Denylist
                          \/ tok.t = "chars"}

InitWrappers ==
    /\ IdleMain
    /\ IdleJoin
    /\ IdleRes
    /\ IdleWalk
    /\ html \in {h \in SeqsUpTo(WrapperTokens, MaxWrapLen) : Modelled(h)}
    /\ title \in Titles
    /\ result = NotRun
    /\ xhtml = <<>>
    /\ san_pc = "call"

SpecWrappers == InitWrappers /\ [][NextSanitize]_vars

\* The page-0 resolution of one story, as the closure of parse_story_infos
\* (and the loop body of parse_stories) runs it: the id first, then the range;
\* `?` returns an Err, a panic unwinds.
AfterCall(r, next) ==
    CASE r.tag = "Ok" -> next
      [] r.tag = "Err" -> "err"
      [] OTHER -> "panic"

ResolveStoryId ==
    /\ res_pc = "id"
    /\ story_id' = GetStoryId(first_page_doc)
    /\ res_pc' = AfterCall(story_id', "range")
    /\ UNCHANGED <<first_page_doc, page_range>>
    /\ UNCHANGED <<sanVars, walkVars, joinVars, mainVars>>

ResolvePageRange ==
    /\ res_pc = "range"
    /\ page_range' = GetPageRange(first_page_doc)
    /\ res_pc' = AfterCall(page_range', "done")
    /\ UNCHANGED <<first_page_doc, story_id>>
    /\ UNCHANGED <<sanVars, walkVars, joinVars, mainVars>>

InitResolve ==
    /\ IdleMain
    /\ IdleJoin
    /\ IdleSan
    /\ IdleWalk
    /\ first_page_doc \in [imgs : SeqsUpTo(Imgs, MaxImgs), divs : SeqsUpTo(FloatLeftTexts, MaxDivs)]
    /\ story_id = NotCalled
    /\ page_range = NotCalled
    /\ res_pc = "id"

NextResolve == ResolveStoryId \/ ResolvePageRange

SpecResolve == InitResolve /\ [][NextResolve]_vars

\* The story the walker is given: resolved from page 0 as the site shows it
\* at that moment (no pagination container on a one-page story).
DigitOf(n) == Digits[n + 1]
StoryUrl == BASE_URL \o "/s/a"
StoryTitle == "Story"

SiteDoc(n) ==
    [imgs |-> << Img("roundcorner", Some(SrcUpper)) >>,
     divs |-> IF n = 1 THEN <<>> ELSE << << DigitOf(n), " ", PageMark >> >>]

\* get_page_document(url, 0), get_story_id, get_page_range and the StoryInfo,
\* as parse_story_infos builds it; then main hands it to parse_story.
ResolveFirstPage ==
    /\ walk.pc = "resolve"
    /\ network' = Append(network, Get(StoryUrl, 0))
    /\ first_page_doc' = SiteDoc(site_pages)
    /\ story_id' = GetStoryId(first_page_doc')
    /\ page_range' = GetPageRange(first_page_doc')
    /\ res_pc' = "done"
    /\ story' = StoryInfo(StoryTitle, story_id'.v, StoryUrl, page_range'.v)
    /\ walk' = WalkStart(story')
    /\ UNCHANGED <<site_pages, server, walk_result>>
    /\ UNCHANGED <<sanVars, joinVars, mainVars>>

\* The author adds or removes pages while the tool runs.
SiteChanges ==
    /\ walk.pc = "loop"
    /\ \E n \in 0..MaxPages : n # site_pages /\ site_pages' = n
    /\ UNCHANGED <<server, network, story, walk, walk_result>>
    /\ UNCHANGED <<sanVars, resVars, joinVars, mainVars>>

\* One turn of the loop whose post_get_page_api(..).await is Ok.
PostGetPageOk ==
    /\ walk.pc = "loop" /\ ~RangeDone(walk, story)
    /\ PostGetPageApi(server, walk.page).tag = "Ok"
    /\ network' = Append(network, Post(story.url, story.id, walk.page))
    /\ walk' = MatchOk(walk, PostGetPageApi(server, walk.page).v)
    /\ UNCHANGED <<site_pages, server, story, walk_result>>
    /\ UNCHANGED <<sanVars, resVars, joinVars, mainVars>>

\* One turn of the loop whose post_get_page_api(..).await is Err.
PostGetPageErr ==
    /\ walk.pc = "loop" /\ ~RangeDone(walk, story)
    /\ PostGetPageApi(server, walk.page).tag = "Err"
    /\ network' = Append(network, Post(story.url, story.id, walk.page))
    /\ walk' = MatchErr(walk)
    /\ UNCHANGED <<site_pages, server, story, walk_result>>
    /\ UNCHANGED <<sanVars, resVars, joinVars, mainVars>>

\* Ok(page_responses), after the last page or after the break.
WalkReturn ==
    /\ \/ walk.pc = "loop" /\ RangeDone(walk, story)
       \/ walk.pc = "return"
    /\ walk_result' = Ok(walk.page_responses)
    /\ walk' = [walk EXCEPT !.pc = "done"]
    /\ UNCHANGED <<site_pages, server, network, story>>
    /\ UNCHANGED <<sanVars, resVars, joinVars, mainVars>>

InitWalk ==
    /\ IdleMain
    /\ IdleJoin
    /\ IdleSan
    /\ IdleRes
    /\ site_pages \in 0..MaxPages
    /\ server \in [0..(MaxPages - 1) -> Responses]
    /\ network = <<>>
    /\ story = StoryInfo("", <<>>, "", Range(0, 0))
    /\ walk = [WalkIdle EXCEPT !.pc = "resolve"]
    /\ walk_result = NotCalled

NextWalk ==
    \/ ResolveFirstPage
    \/ SiteChanges
    \/ PostGetPageOk
    \/ PostGetPageErr
    \/ WalkReturn

SpecWalk == InitWalk /\ [][NextWalk]_vars

\* One get_page_document future completes, in any order among those pending.
FirstPageArrives(i, resp) ==
    /\ join_pc = "join"
    /\ futures[i].tag = "None"
    /\ futures' = [futures EXCEPT ![i] = GetPageDocument(UrlOf(about_page[i]), resp)]
    /\ completed' = Append(completed, i)
    /\ UNCHANGED <<about_page, story_infos, join_pc>>
    /\ UNCHANGED <<sanVars, resVars, walkVars, mainVars>>

\* join_all returns when every future has completed; then the zip and collect.
JoinAndCollect ==
    /\ join_pc = "join"
    /\ \A i \in 1..Len(futures) : futures[i].tag # "None"
    /\ story_infos' = Collect(JoinAll(futures, completed), TitleAndUrls(about_page))
    /\ join_pc' = "done"
    /\ UNCHANGED <<about_page, futures, completed>>
    /\ UNCHANGED <<sanVars, resVars, walkVars, mainVars>>

Injective(f) == \A i, j \in DOMAIN f : f[i] = f[j] => i = j

InitStories ==
    /\ IdleMain
    /\ IdleSan
    /\ IdleRes
    /\ IdleWalk
    /\ about_page \in {page \in SeqsUpTo(SiteStories, MaxStories) : Injective(page)}
    /\ futures = [i \in 1..Len(about_page) |-> NotCalled]
    /\ completed = <<>>
    /\ story_infos = NotCalled
    /\ join_pc = "join"

NextStories ==
    \/ \E i \in 1..Len(about_page), resp \in Responses : FirstPageArrives(i, resp)
    \/ JoinAndCollect

SpecStories == InitStories /\ [][NextStories]_vars

\* One run of main (main.rs): each action is one call of main, or one turn
\* of a loop that waits for the site or the user.
AuthorPrompt == "Which author(ID) interests you? "
StoryPrompt == "Which story do you want to read? Or enter q to exit"

\* `?` on a call that failed, or a panic inside it: the process ends.
Abort(r) ==
    /\ main_pc' = "exit"
    /\ exit_status' = EndedBy(r)

AskAuthorId ==
    /\ main_pc = "ask_author_id"
    /\ \E ln \in AuthorLines : author_id' = Flat(Trim(ln))
    /\ console' = Append(console, AuthorPrompt)
    /\ main_pc' = "get_about_page"
    /\ UNCHANGED <<profile, about_title, nickname, stories, story_index_str,
                   selected, cover_image, files, exit_status>>
    /\ UNCHANGED <<sanVars, resVars, walkVars, joinVars>>

GetAboutPageCall ==
    /\ main_pc = "get_about_page"
    /\ \E resp \in ProfileResponses : profile' = resp
    /\ network' = Append(network, GetUrl(BASE_URL \o "/about/" \o author_id))
    /\ IF GetAboutPage(profile').tag = "Ok"
       THEN main_pc' = "parse_nickname" /\ UNCHANGED exit_status
       ELSE Abort(GetAboutPage(profile'))
    /\ UNCHANGED <<author_id, about_title, nickname, stories, console,
                   story_index_str, selected, cover_image, files>>
    /\ UNCHANGED <<site_pages, server, story, walk, walk_result>>
    /\ UNCHANGED <<sanVars, resVars, joinVars>>

ParseNicknameCall ==
    /\ main_pc = "parse_nickname"
    /\ nickname' = ParseNickname(about_title)
    /\ IF nickname'.tag = "Ok"
       THEN /\ console' = Append(console, "Let's see what stories does .. have ...")
            /\ main_pc' = "parse_stories"
            /\ UNCHANGED exit_status
       ELSE Abort(nickname') /\ UNCHANGED console
    /\ UNCHANGED <<author_id, profile, about_title, stories, story_index_str,
                   selected, cover_image, files>>
    /\ UNCHANGED <<sanVars, resVars, walkVars, joinVars>>

\* One turn of the for loop of parse_stories: the first page of the next
\* entry is fetched and resolved before the entry after it is looked at.
ParseStoriesTurn ==
    /\ main_pc = "parse_stories"
    /\ Len(stories) < Len(about_page)
    /\ LET e == about_page[Len(stories) + 1]
       IN  /\ network' = Append(network, Get(UrlOf(e), 0))
           /\ \E resp \in Responses :
                LET info == ToStoryInfo(GetPageDocument(UrlOf(e), resp),
                                        << e.title, UrlOf(e) >>)
                IN  IF info.tag = "Ok"
                    THEN /\ stories' = Append(stories, info.v)
                         /\ UNCHANGED <<main_pc, exit_status>>
                    ELSE Abort(info) /\ UNCHANGED stories
    /\ UNCHANGED <<author_id, profile, about_title, nickname, console,
                   story_index_str, selected, cover_image, files>>
    /\ UNCHANGED <<site_pages, server, story, walk, walk_result>>
    /\ UNCHANGED <<sanVars, resVars, joinVars>>

\* parse_stories returns, and ask_select_story prints the numbered titles.
AskSelectStoryList ==
    /\ main_pc = "parse_stories"
    /\ Len(stories) = Len(about_page)
    /\ console' = console \o << StoryPrompt >>
                      \o [i \in 1..Len(stories) |-> DigitOf(i) \o ") " \o stories[i].title]
    /\ main_pc' = "ask_select_story"
    /\ UNCHANGED <<author_id, profile, about_title, nickname, stories,
                   story_index_str, selected, cover_image, files, exit_status>>
    /\ UNCHANGED <<sanVars, resVars, walkVars, joinVars>>

Prompts == Len(SelectSeq(console, LAMBDA c : c = "> "))

\* One turn of the loop of ask_select_story: the prompt, one line read, the
\* match.  On Ok main goes on to parse_story with the story returned.
AskSelectStoryTurn ==
    /\ main_pc = "ask_select_story"
    /\ Prompts < MaxLines
    /\ \E ln \in StoryLines : story_index_str' = ln
    /\ LET turn == SelectTurn(story_index_str', stories)
       IN  CASE turn.tag = "Ok" ->
                  /\ selected' = turn
                  /\ console' = Append(console, "> ")
                  /\ story' = turn.v
                  /\ walk' = WalkStart(turn.v)
                  /\ main_pc' = "parse_story"
                  /\ UNCHANGED exit_status
             [] turn.tag = "Panic" ->
                  /\ selected' = turn
                  /\ console' = Append(console, "> ")
                  /\ Abort(turn)
                  /\ UNCHANGED <<story, walk>>
             [] turn.tag = "Exit" ->
                  /\ console' = Append(console, "> ")
                  /\ main_pc' = "exit"
                  /\ exit_status' = Ended(turn.v, "exit")
                  /\ UNCHANGED <<selected, story, walk>>
             [] OTHER ->
                  /\ console' = console \o << "> ", "Try again" >>
                  /\ UNCHANGED <<selected, story, walk, main_pc, exit_status>>
    /\ UNCHANGED <<author_id, profile, about_title, nickname, stories,
                   cover_image, files>>
    /\ UNCHANGED <<site_pages, server, network, walk_result>>
    /\ UNCHANGED <<sanVars, resVars, joinVars>>

CoverUrl(id) == BASE_URL \o "/content/coverimage/" \o Flat(id) \o ".jpg"

\* After parse_story returned: the cover request, which never ends the run.
DownloadCoverImageCall ==
    /\ main_pc = "parse_story"
    /\ walk.pc = "done"
    /\ network' = Append(network, GetUrl(CoverUrl(story.id)))
    /\ \E resp \in Responses : cover_image' = DownloadCoverImage(resp)
    /\ main_pc' = "create_epub_file"
    /\ UNCHANGED <<author_id, profile, about_title, nickname, stories, console,
                   story_index_str, selected, files, exit_status>>
    /\ UNCHANGED <<site_pages, server, story, walk, walk_result>>
    /\ UNCHANGED <<sanVars, resVars, joinVars>>

\* create_epub_file: every page goes through surround_with_xhtml_header (a
\* panic of the sanitizer unwinds before any file exists), then File::create
\* (`?`), then generate(..).unwrap() into the file created.
CreateEpubFile ==
    /\ main_pc = "create_epub_file"
    /\ main_pc' = "exit"
    /\ LET pages == walk_result.v
           epub == story.title \o ".epub"
       IN  IF \E i \in 1..Len(pages) :
                 SanitizeToMeetXhtml(HtmlBodyOf(pages[i].htmlbody)).panicked
           THEN exit_status' = Ended(101, "panic") /\ UNCHANGED files
           ELSE \E io \in {"created", "create failed", "generate failed"} :
                  CASE io = "created" ->
                         files' = files \cup {epub} /\ exit_status' = Ended(0, "return")
                    [] io = "create failed" ->
                         UNCHANGED files /\ exit_status' = Ended(1, "error")
                    [] OTHER ->
                         files' = files \cup {epub} /\ exit_status' = Ended(101, "panic")
    /\ UNCHANGED <<author_id, profile, about_title, nickname, stories, console,
                   story_index_str, selected, cover_image>>
    /\ UNCHANGED <<sanVars, resVars, walkVars, joinVars>>

InitMain ==
    /\ IdleSan
    /\ IdleRes
    /\ site_pages = 0
    /\ server \in MainServers
    /\ network = <<>>
    /\ story = StoryInfo("", <<>>, "", Range(0, 0))
    /\ walk = WalkIdle
    /\ walk_result = NotCalled
    /\ about_page \in {page \in SeqsUpTo(SiteStories, MaxStories) : Injective(page)}
    /\ futures = <<>>
    /\ completed = <<>>
    /\ story_infos = NotCalled
    /\ join_pc = "idle"
    /\ main_pc = "ask_author_id"
    /\ author_id = ""
    /\ profile = NoProfile
    /\ about_title \in AboutTitles
    /\ nickname = NotCalled
    /\ stories = <<>>
    /\ console = <<>>
    /\ story_index_str = <<>>
    /\ selected = NotCalled
    /\ cover_image = None
    /\ files = {}
    /\ exit_status = Running

NextMain ==
    \/ AskAuthorId
    \/ GetAboutPageCall
    \/ ParseNicknameCall
    \/ ParseStoriesTurn
    \/ AskSelectStoryList
    \/ AskSelectStoryTurn
    \/ PostGetPageOk
    \/ PostGetPageErr
    \/ WalkReturn
    \/ DownloadCoverImageCall
    \/ CreateEpubFile

SpecMain == InitMain /\ [][NextMain]_vars

\* ------------------------------------------------ reading a string as XML
AttrForms == {<<>>, ClassX}
TagNames == {"html", "p", "span", "b", "font", "br"}

\* The XML token a piece of text is: a start tag, an end tag, an empty-element
\* tag, a comment, or character data.
XmlLex(piece) ==
    IF piece = "<br />" THEN [x |-> "empty", name |-> "br"]
    ELSE IF \E n \in TagNames, a \in AttrForms : piece = DebugElement(ElementValue(n, a))
         THEN [x |-> "open",
               name |-> CHOOSE n \in TagNames :
                           \E a \in AttrForms : piece = DebugElement(ElementValue(n, a))]
    ELSE IF \E n \in TagNames : piece = EndTag(n).raw
         THEN [x |-> "close", name |-> CHOOSE n \in TagNames : piece = EndTag(n).raw]
    ELSE IF piece = CommentTok("c").raw THEN [x |-> "comment", name |-> ""]
    ELSE IF piece \in {"<p class=x>", "<br>"} THEN [x |-> "malformed", name |-> ""]
    ELSE [x |-> "text", name |-> ""]

RECURSIVE Nested(_, _)
\* Every start tag has its end tag, properly nested; open is the stack of the
\* names still open.
Nested(pieces, open) ==
    IF pieces = <<>> THEN open = <<>>
    ELSE LET l == XmlLex(Head(pieces))
         IN  CASE l.x = "open" -> Nested(Tail(pieces), Append(open, l.name))
               [] l.x = "close" ->
                     /\ open # <<>>
                     /\ open[Len(open)] = l.name
                     /\ Nested(Tail(pieces), SubSeq(open, 1, Len(open) - 1))
               [] l.x = "malformed" -> FALSE
               [] OTHER -> Nested(Tail(pieces), open)

WellFormedXml(pieces) == Nested(pieces, <<>>)

Raw(toks) == [i \in 1..Len(toks) |-> toks[i].raw]
Texts(toks) == [i \in 1..Len(toks) |-> toks[i].text]
Done == san_pc = "done"

\* ------------------------------------------------------------------ claims

\* C3: for every input body the fragment the sanitizer emits is well-formed
\* XML: every element emitted as a start tag (all but the self-closed line
\* break) has its matching, properly nested end tag in the output.
C3_OutputWellFormed ==
    Done /\ ~result.panicked => WellFormedXml(result.pieces)

\* A body of font/b/span elements around text: only their tags and text,
\* every tag closed and properly nested, all the text inside a wrapper.
WrapperFragment(toks) ==
    /\ toks # <<>>
    /\ \A i \in 1..Len(toks) : toks[i] \in WrapperTokens
    /\ WellFormedXml(Raw(toks))
    /\ toks[1].t = "start"
    /\ \A i \in 1..Len(toks) :
          toks[i].t = "chars" => ~WellFormedXml(Raw(SubSeq(toks, 1, i - 1)))
    /\ \E i \in 1..Len(toks) : toks[i].t = "chars"

IsWrapperTag(piece) ==
    XmlLex(piece).x \in {"open", "close"} /\ XmlLex(piece).name \in Denylist

IsStrictXhtml(toks) ==
    /\ WellFormedXml(Raw(toks))
    /\ \A i \in 1..Len(toks) : toks[i].name \notin Denylist

\* C5: sanitizing a body that is already strict XHTML returns it byte for
\* byte; only the document shell is added around it.
C5_RoundTrip ==
    Done /\ IsStrictXhtml(html) =>
        /\ ~result.panicked
        /\ Flat(result.pieces) = Flat(Raw(html))
        /\ Flat(xhtml) = Flat(SurroundWithXhtmlHeader(title, Raw(html)))

BrElements(nodes) ==
    Cardinality({n \in 1..Len(nodes) :
                    nodes[n].value.kind = "element" /\ nodes[n].value.name = "br"})

\* C6: the number of "<br />" in the output is the number of line-break
\* elements of the input: one per <br>, none duplicated, none omitted.
C6_OneBrPerLineBreak ==
    Done /\ ~result.panicked =>
        CountOf("<br />", result.pieces) = BrElements(ParseFragment(html))

\* ---- page-range resolver

WhiteSpace == {" ", "\t", "\n"}

RECURSIVE SkipWhite(_)
SkipWhite(s) ==
    IF s # <<>> /\ Head(s) \in WhiteSpace THEN SkipWhite(Tail(s)) ELSE s

RECURSIVE UntilWhite(_)
UntilWhite(s) ==
    IF s = <<>> \/ Head(s) \in WhiteSpace THEN <<>>
    ELSE << Head(s) >> \o UntilWhite(Tail(s))

\* The leading white-space-delimited token of a text.
LeadingToken(s) == UntilWhite(SkipWhite(s))

IsInteger(s) == s # <<>> /\ \A i \in 1..Len(s) : IndexIn(s[i], Digits) # 0

Marked(d) == {i \in 1..Len(d.divs) : Contains(d.divs[i], PageMark)}
FirstOf(S) == CHOOSE i \in S : \A j \in S : i <= j

RangeCalled == page_range.tag # "None"

\* C7: when a float-left container holds the page marker, the page count is
\* the leading white-space-delimited integer token of its text ("12 <mark>"
\* gives the range 0..12); when no container holds it, the range is 0..1,
\* never 0 pages and never an error.
C7_PageCount ==
    RangeCalled =>
        IF Marked(first_page_doc) = {} THEN page_range = Ok(Range(0, 1))
        ELSE LET token == LeadingToken(
                            first_page_doc.divs[FirstOf(Marked(first_page_doc))])
             IN  IsInteger(token) =>
                    /\ page_range.tag = "Ok"
                    /\ page_range.v = Range(0, Decimal(token))

IdCalled == story_id.tag # "None"

\* The img elements get_story_id may take: class roundcorner, a src that is
\* not empty.
Qualifying(d) ==
    {i \in 1..Len(d.imgs) :
        /\ d.imgs[i].class = "roundcorner"
        /\ d.imgs[i].src.some
        /\ d.imgs[i].src.v # <<>>}

FirstSrc(d) == d.imgs[FirstOf(Qualifying(d))].src.v

RECURSIVE AfterLastSlash(_)
AfterLastSlash(s) ==
    IF s = <<>> \/ s[Len(s)] = "/" THEN <<>>
    ELSE Append(AfterLastSlash(SubSeq(s, 1, Len(s) - 1)), s[Len(s)])

RECURSIVE BeforeDot(_)
BeforeDot(s) ==
    IF s = <<>> \/ Head(s) = "." THEN <<>>
    ELSE << Head(s) >> \o BeforeDot(Tail(s))

\* The directory part of a src: all up to and including the last "/".
DirOf(s) == SubSeq(s, 1, Len(s) - Len(AfterLastSlash(s)))

EndsWith(s, suffix) ==
    Len(s) >= Len(suffix) /\ SubSeq(s, Len(s) - Len(suffix) + 1, Len(s)) = suffix

\* .../coverimage/{ID}.{ext}?...
CoverShape(src) ==
    /\ EndsWith(DirOf(src), Slash \o CoverDir \o Slash)
    /\ Contains(AfterLastSlash(src), ".")

\* /content/coverimage/{ID}.{ext}?...
ContentCoverShape(src) ==
    /\ DirOf(src) = Slash \o ContentDir \o Slash \o CoverDir \o Slash
    /\ Contains(AfterLastSlash(src), ".")

\* The upper case of the lower-case letters of the ids used, written out
\* apart from str::to_uppercase.
UpperOf(c) ==
    CASE c = "a" -> "A" [] c = "b" -> "B" [] c = "e" -> "E" [] c = "f" -> "F"
      [] OTHER -> c

IdOf(src) ==
    LET id == BeforeDot(AfterLastSlash(src))
    IN  [i \in 1..Len(id) |-> UpperOf(id[i])]

\* C8 as stated: when the first qualifying image with a non-empty src has a
\* src of the shape .../coverimage/{ID}.{ext}?..., the result is {ID}, the
\* part of the file name before its first dot, in upper case.
C8_StoryIdAnyPrefix ==
    IdCalled /\ Qualifying(first_page_doc) # {}
             /\ CoverShape(FirstSrc(first_page_doc)) =>
        /\ story_id.tag = "Ok"
        /\ story_id.v = IdOf(FirstSrc(first_page_doc))

\* C8 amended: when the first img.roundcorner element with a non-empty src
\* has a src of the shape /content/coverimage/{ID}.{ext}?... (nothing before
\* /content, so that the file name is the fourth "/"-separated piece), the
\* result is {ID}, the part of the file name before its first dot, in upper
\* case; src="/content/coverimage/AB12CD.jpg?0" gives "AB12CD".
C8_StoryId ==
    IdCalled /\ Qualifying(first_page_doc) # {}
             /\ ContentCoverShape(FirstSrc(first_page_doc)) =>
        /\ story_id.tag = "Ok"
        /\ story_id.v = IdOf(FirstSrc(first_page_doc))
        /\ FirstSrc(first_page_doc) = SrcUpper =>
              story_id.v = << "A", "B", "1", "2", "C", "D" >>

\* C8 witness: an image of another class and then a round-corner image with
\* a lower-case id; the id came out in upper case.
C8_Witness ==
    /\ IdCalled
    /\ Len(first_page_doc.imgs) = 2
    /\ first_page_doc.imgs[1].class # "roundcorner"
    /\ first_page_doc.imgs[2] = Img("roundcorner", Some(SrcLower))
    /\ story_id = Ok(<< "E", "F", "3", "4" >>)

\* C9: when no qualifying image with a non-empty src exists, or its src does
\* not have the expected shape, get_story_id returns the error
\* ParseError(MissingStoryId) to its caller: no id, and no other way out.
C9_MissingStoryIdIsErr ==
    IdCalled /\ (\/ Qualifying(first_page_doc) = {}
                 \/ ~CoverShape(FirstSrc(first_page_doc))) =>
        story_id.tag = "Err"

\* ---- story walker

\* A fetch fails when post_get_page_api returns Err: the request could not be
\* sent, or the body is not the expected JSON (which is how a non-success
\* status shows: the code does not read the status itself).
FetchFails(resp) == ~resp.sent \/ ~resp.json

Walked == walk.pc = "done"
PageCount == story.page_range.end
FailedPages == {p \in 0..(PageCount - 1) : FetchFails(ResponseFor(server, p))}
FirstFailed == IF FailedPages = {} THEN PageCount ELSE FirstOf(FailedPages)

\* C1: whatever the fetches do, the walk returns Ok with exactly the pages
\* 0..k-1 in index order, k the first index whose fetch failed (the page
\* count when none did): no gap, no reordering, no duplicate, and no fetch
\* failure becomes an error of the walk.
C1_WalkReturnsPrefix ==
    Walked =>
        /\ walk_result.tag = "Ok"
        /\ walk_result.v = [i \in 1..FirstFailed |-> GetPageResponse(i - 1)]

\* C1 witness: three pages, the second fetch failed while the third would
\* have succeeded; the walk returned page 0 alone.
C1_Witness ==
    /\ Walked
    /\ PageCount = 3
    /\ FailedPages = {1}
    /\ walk_result = Ok(<< GetPageResponse(0) >>)

Posts == SelectSeq(network, LAMBDA r : r.method = "POST")
Gets == SelectSeq(network, LAMBDA r : r.method = "GET")

\* C2: during a walk the page requests go out one after the other for the
\* indices 0, 1, 2, ... each once; none follows a failed one, none is for an
\* index at or past the page count, and the page count is the one read at
\* resolution: page 0 is not fetched again.
C2_RequestsInOrderOnce ==
    walk.pc \in {"loop", "return", "done"} =>
        /\ Len(Gets) = 1
        /\ network[1] = Get(story.url, 0)
        /\ story.page_range = GetPageRange(first_page_doc).v
        /\ \A i \in 1..Len(Posts) :
              /\ Posts[i] = Post(story.url, story.id, i - 1)
              /\ Posts[i].pid < PageCount
              /\ i < Len(Posts) => ~FetchFails(ResponseFor(server, Posts[i].pid))

\* C2 witness: the site grew during the walk; the walk asked for the two
\* pages counted at resolution, in order, and ended.
C2_Witness ==
    /\ Walked
    /\ PageCount = 2
    /\ site_pages = 3
    /\ Len(Posts) = 2
    /\ Posts[1].pid = 0 /\ Posts[2].pid = 1

\* ---- first-page resolution of all stories

\* What page 0 of each story holds, read off the site by hand.
KnownId(href) ==
    CASE href = "/s/alpha" -> << "A", "B", "1", "2", "C", "D" >>
      [] href = "/s/beta" -> << "E", "F", "3", "4" >>
      [] href = "/s/gamma" -> << "E", "F", "3", "4" >>
      [] OTHER -> <<>>
KnownPages(href) ==
    CASE href = "/s/alpha" -> 12
      [] href = "/s/beta" -> 3
      [] href = "/s/gamma" -> 1
      [] OTHER -> 0

\* C10: whatever order the first-page fetches complete in, the story list
\* follows the document order of the entries of the author page, and every
\* StoryInfo pairs the entry's title and URL with the id and the page range
\* read from that story's own first page.
C10_DocumentOrder ==
    join_pc = "done" /\ story_infos.tag = "Ok" =>
        /\ Len(story_infos.v) = Len(about_page)
        /\ \A i \in 1..Len(about_page) :
              /\ story_infos.v[i].title = about_page[i].title
              /\ story_infos.v[i].url = BASE_URL \o about_page[i].href
              /\ story_infos.v[i].id = KnownId(about_page[i].href)
              /\ story_infos.v[i].page_range = Range(0, KnownPages(about_page[i].href))

\* C10 witness: three stories whose first pages arrived last to first, and
\* the list is in document order.
C10_Witness ==
    /\ join_pc = "done"
    /\ story_infos.tag = "Ok"
    /\ Len(about_page) = 3
    /\ completed = << 3, 2, 1 >>
    /\ story_infos.v[1].title = about_page[1].title
    /\ story_infos.v[1].page_range # story_infos.v[3].page_range

\* ---- sanitizer traversal

\* The nodes of the fragment the loop visits that are neither an element nor
\* a text node.
OtherNodes(toks) ==
    LET fragment == ParseFragment(toks)
        order == Visited(fragment)
    IN  {i \in 1..Len(order) : ~Reachable(fragment[order[i]].value)}

\* C12: for every input body the fragment parse succeeds and every node the
\* pre-order traversal visits (the root excluded) is an element or a text
\* node, so unreachable!() is never run and the sanitizer returns a string.
C12_NeverUnreachable ==
    Done => OtherNodes(html) = {} /\ ~result.panicked

\* ---- one run of the program

\* The site answered the profile request with a status outside 200..299.
ProfileRefused == profile.sent /\ (profile.status < 200 \/ profile.status > 299)

\* The requests made other than the profile request.
LaterRequests ==
    SelectSeq(network, LAMBDA r : r # GetUrl(BASE_URL \o "/about/" \o author_id))

\* C11: when the author profile request comes back with a non-success
\* status, the run has ended with a failure, no story first-page request, page
\* request or cover request was made, no story listing or selection prompt was
\* shown, and no output file exists.
C11_RefusedProfileEndsRun ==
    ProfileRefused =>
        /\ main_pc = "exit"
        /\ exit_status.ended /\ exit_status.code # 0
        /\ LaterRequests = <<>>
        /\ console = << AuthorPrompt >>
        /\ stories = <<>> /\ selected = NotCalled
        /\ files = {}

\* C11 witness: the profile of an author three of whose stories are on the
\* site came back as 404, and the run is over after that one request.
C11_Witness ==
    /\ profile.sent /\ profile.status = 404
    /\ Len(about_page) = 3
    /\ Len(network) = 1
    /\ exit_status = Ended(1, "error")

\* A line taken as an integer: digits, with or without a sign.
SignedInteger(s) ==
    \/ IsInteger(s)
    \/ Len(s) > 1 /\ s[1] \in {"+", "-"} /\ IsInteger(Tail(s))

IntegerOf(s) ==
    IF s[1] = "-" THEN 0 - Decimal(Tail(s))
    ELSE IF s[1] = "+" THEN Decimal(Tail(s))
    ELSE Decimal(s)

\* C13: after every line ask_select_story has read over a list of n stories,
\* a line that is an integer i with 1 <= i <= n has returned story number i
\* of the list; the line q has ended the process with a non-zero status; any
\* other line has left the loop prompting again with nothing selected; and
\* no line has made the loop index outside the list (a panic).
C13_SelectionLoop ==
    Prompts > 0 =>
        LET t == Trim(story_index_str)
        IN  /\ selected.tag # "Panic"
            /\ IF SignedInteger(t) /\ IntegerOf(t) \in 1..Len(stories)
               THEN selected = Ok(stories[IntegerOf(t)])
               ELSE IF t = << "q" >>
               THEN /\ exit_status.ended /\ exit_status.code # 0
                    /\ selected = NotCalled
               ELSE /\ main_pc = "ask_select_story"
                    /\ ~exit_status.ended
                    /\ selected = NotCalled
                    /\ console[Len(console)] = "Try again"

====
